---- MODULE Spec2Model ----
(***************************************************************************)
(* vs-deploy, local transport plugin (src/plugins/local.ts) together with  *)
(* the contracts it implements.  The plugin is callback driven: every      *)
(* filesystem request (FS.exists, FSExtra.mkdirs, FSExtra.copy,            *)
(* FSExtra.emptyDir) suspends a pipeline until the event loop fires its    *)
(* callback.  One action of the model is one run-to-completion step of the *)
(* event loop: a call made by the host, or one filesystem callback,        *)
(* together with everything it invokes synchronously.  The outcome of a    *)
(* filesystem request (the directory exists or not, an error or none) is   *)
(* the environment's choice.  A behaviour follows one operation of the     *)
(* host, deployFile or deployWorkspace, from its call to its rest; the     *)
(* plugin keeps no state between operations.                               *)
(*                                                                         *)
(* helpers.ts (toRelativeTargetPath, toStringSafe, toBooleanSafe) and      *)
(* objects.ts (DeployPluginBase.deployWorkspace) are not part of the       *)
(* sources at hand; they are modelled from the specification (sections     *)
(* 4.1, 4.3, 5).  So are the transform pipeline (section 4.2), of which    *)
(* the contracts declare the module and the modes only, and the identity   *)
(* the plugin registry gives an instance when it loads it (section 4.4).   *)
(*                                                                         *)
(* Spec: a workspace folder is open and the host passes options.           *)
(* SpecAnyRoot: a folder may be open or not.  SpecOmittedOpts: the host    *)
(* may call deployWorkspace without options.  SpecTransform: the transform *)
(* pipeline applied to buffers.                                            *)
(***************************************************************************)
EXTENDS Naturals, Sequences, FiniteSets

VARIABLES
    rootPath,     \* vscode.workspace.rootPath: a path, or NoPath when no folder is open
    cancelling,   \* what context.isCancelling() returns
    calls,        \* one record per invocation of LocalPlugin.deployFile
    wss,          \* one record per invocation of LocalPlugin.deployWorkspace
    me,           \* the identity fields of the plugin instance (__file, __filePath, __index, __type)
    lastInfo,     \* what the last call of info() returned; NoInfo before the first
    transformed   \* the last application of the transform pipeline; NotApplied before the first

vars == <<rootPath, cancelling, calls, wss, me, lastInfo, transformed>>

-----------------------------------------------------------------------------
(* Bounds of the model *)

\* length of the buffers handed to the transform pipeline
MaxBuffer == 2

\* length of the file list of one deployWorkspace
MaxFiles == 2

-----------------------------------------------------------------------------
(* Paths: sequences of segments.  An absolute path lists its segments from *)
(* the filesystem root.                                                    *)

NoPath == <<"<undefined>">>

WorkspaceRoot == <<"ws">>

IsPrefix(p, s) == Len(p) <= Len(s) /\ SubSeq(s, 1, Len(p)) = p

\* Path.dirname
Dirname(p) == SubSeq(p, 1, Len(p) - 1)

\* an absolute path as Path.join / Path.normalize leave it: a "." segment is
\* dropped, a ".." segment takes the segment before it away (none at the root)
RECURSIVE Normalize(_)
Normalize(p) ==
    IF p = <<>> THEN <<>>
    ELSE LET front == Normalize(SubSeq(p, 1, Len(p) - 1))
             last == p[Len(p)]
         IN IF last = "." THEN front
            ELSE IF last = ".." THEN
                IF front = <<>> THEN <<>> ELSE SubSeq(front, 1, Len(front) - 1)
            ELSE Append(front, last)

\* Path.join
Join(a, b) == Normalize(a \o b)

-----------------------------------------------------------------------------
(* Inputs *)

FileDeep == <<"ws", "src", "a", "x.txt">>
FileSrc == <<"ws", "src", "y.txt">>
FileOutside == <<"ext", "z.txt">>

Files == {FileDeep, FileSrc, FileOutside}

\* target.dir: toStringSafe gives "" for an unset value
DirUnset == [abs |-> FALSE, segs |-> <<>>]
DirDot == [abs |-> FALSE, segs |-> <<".">>]
DirRelative == [abs |-> FALSE, segs |-> <<"out">>]
DirAbsolute == [abs |-> TRUE, segs |-> <<"dest", "..", "x">>]
DirParent == [abs |-> FALSE, segs |-> <<"out", "..">>]

Mapping(s, t) == [source |-> s, target |-> t]

NoMappings == <<>>
MappingsSpecific == <<Mapping(<<"src", "a">>, <<"out", "a">>), Mapping(<<"src">>, <<"out">>)>>
MappingsGeneral == <<Mapping(<<"src">>, <<"out">>), Mapping(<<"src", "a">>, <<"deep">>)>>
MappingsChained == <<Mapping(<<"src">>, <<"out">>), Mapping(<<"out">>, <<"fin">>)>>

Targets ==
    { [dir |-> DirUnset, empty |-> FALSE, mappings |-> NoMappings],
      [dir |-> DirUnset, empty |-> TRUE, mappings |-> NoMappings],
      [dir |-> DirAbsolute, empty |-> TRUE, mappings |-> MappingsSpecific],
      [dir |-> DirRelative, empty |-> TRUE, mappings |-> MappingsGeneral],
      [dir |-> DirDot, empty |-> FALSE, mappings |-> MappingsChained],
      [dir |-> DirParent, empty |-> TRUE, mappings |-> NoMappings] }

\* the identity the host gives the instance when it loads the plugin module:
\* the module's file name and path, its load index, the type tag from the name
\* (the plugin never reads it: one loaded module stands for all)
RegisteredIdentities ==
    { [__file |-> "local.js", __filePath |-> <<"plugins", "local.js">>,
       __index |-> 0, __type |-> "local"] }

\* DeployWorkspaceOptions: which of the optional callbacks opts carries: all
\* of them, all but the hook, the two completions one without the other, none
DeployWorkspaceOptions ==
    { [onBeforeDeployFile |-> TRUE, onCompleted |-> TRUE, onFileCompleted |-> TRUE],
      [onBeforeDeployFile |-> FALSE, onCompleted |-> TRUE, onFileCompleted |-> TRUE],
      [onBeforeDeployFile |-> FALSE, onCompleted |-> TRUE, onFileCompleted |-> FALSE],
      [onBeforeDeployFile |-> FALSE, onCompleted |-> FALSE, onFileCompleted |-> TRUE],
      [onBeforeDeployFile |-> FALSE, onCompleted |-> FALSE, onFileCompleted |-> FALSE] }

\* opts.baseDirectory of deployFile; NoPath when not given
BaseDirectories == {NoPath, <<"ws", "src">>}

\* the bytes of the buffers
Bytes == {0, 1, 255}

\* transformerOptions: the key of the shift transformer
TransformerOptions == {[key |-> 1], [key |-> 255]}

\* DataTransformerMode
DataTransformerMode == {"Restore", "Transform"}

\* what a transform module has for one direction: no function, a function that
\* shifts every byte by the key, a function that throws
Transformers == {"absent", "shift", "throws"}

\* no transform module is configured for the target
NoModule == [configured |-> FALSE, transformData |-> "absent", restoreData |-> "absent"]

\* DataTransformModule: both functions are optional
DataTransformModules ==
    { [configured |-> TRUE, transformData |-> t, restoreData |-> r] :
          t \in Transformers, r \in Transformers }

RECURSIVE SeqsUpTo(_, _)
SeqsUpTo(S, n) ==
    IF n = 0 THEN {<<>>}
    ELSE LET shorter == SeqsUpTo(S, n - 1)
         IN shorter \cup { Append(s, x) : s \in shorter, x \in S }

-----------------------------------------------------------------------------
(* local.ts, lines 40-51 *)

\* getFullDirPathFromTarget without the Path.isAbsolute test
getFullDirPathFromTarget_AlwaysJoins(target) ==
    LET dir == IF target.dir.segs = <<>> /\ ~target.dir.abs THEN DirDot ELSE target.dir
    IN IF rootPath = NoPath THEN [ok |-> FALSE, path |-> NoPath]
       ELSE [ok |-> TRUE, path |-> Join(rootPath, dir.segs)]

\* getFullDirPathFromTarget with a default directory other than './'
getFullDirPathFromTarget_OtherDefault(target) ==
    LET dir == IF target.dir.segs = <<>> /\ ~target.dir.abs THEN DirRelative ELSE target.dir
    IN IF dir.abs THEN [ok |-> TRUE, path |-> dir.segs]
       ELSE IF rootPath = NoPath THEN [ok |-> FALSE, path |-> NoPath]
       ELSE [ok |-> TRUE, path |-> Join(rootPath, dir.segs)]

\* the target's root directory; ok = FALSE when Path.join raises a TypeError
\* because vscode.workspace.rootPath is undefined
getFullDirPathFromTarget(target) ==
    LET dir == IF target.dir.segs = <<>> /\ ~target.dir.abs THEN DirDot ELSE target.dir
    IN IF dir.abs THEN [ok |-> TRUE, path |-> dir.segs]
       ELSE IF rootPath = NoPath THEN [ok |-> FALSE, path |-> NoPath]
       ELSE [ok |-> TRUE, path |-> Join(rootPath, dir.segs)]

-----------------------------------------------------------------------------
(* Path Mapper (helpers.ts), from section 4.1 of the specification *)

\* the file's path relative to the base directory (default: the workspace root)
toRelativePath(file, baseDirectory) ==
    LET base == IF baseDirectory = NoPath THEN rootPath ELSE baseDirectory
    IN IF base # NoPath /\ IsPrefix(base, file) /\ Len(file) > Len(base)
       THEN [ok |-> TRUE, path |-> SubSeq(file, Len(base) + 1, Len(file))]
       ELSE [ok |-> FALSE, path |-> NoPath]

\* a mapping matches when its source is a prefix of the file's relative directory
MappingMatches(m, rel) == IsPrefix(m.source, Dirname(rel))

\* the matched prefix replaced by the mapping's target prefix
ApplyMapping(m, rel) == m.target \o SubSeq(rel, Len(m.source) + 1, Len(rel))

\* scan in declared order, the first match is applied and ends the scan
RECURSIVE ScanMappings(_, _)
ScanMappings(rel, mappings) ==
    IF mappings = <<>> THEN rel
    ELSE IF MappingMatches(Head(mappings), rel) THEN ApplyMapping(Head(mappings), rel)
    ELSE ScanMappings(rel, Tail(mappings))

toRelativeTargetPath(file, target, baseDirectory) ==
    LET rel == toRelativePath(file, baseDirectory)
    IN IF ~rel.ok THEN rel
       ELSE [ok |-> TRUE, path |-> ScanMappings(rel.path, target.mappings)]

-----------------------------------------------------------------------------
(* The pipelines.  S is the pair [calls, wss] that a run-to-completion     *)
(* step transforms; the operators below are the closures of local.ts and  *)
(* of the base class, applied to it.                                       *)

RECURSIVE completed(_, _, _, _)
RECURSIVE fileCompleted(_, _)
RECURSIVE deployNextFile(_, _)
RECURSIVE deployFile(_, _, _, _, _, _, _, _)

NewCall(file, target, baseDirectory, hasCompleted, hasBefore, w, idx) ==
    [ file |-> file, target |-> target, baseDirectory |-> baseDirectory,
      hasCompleted |-> hasCompleted,    \* opts.onCompleted is given
      hasBefore |-> hasBefore,          \* opts.onBeforeDeploy is given
      ws |-> w, idx |-> idx,            \* the deployWorkspace run and list position (0: none)
      cancelAtEntry |-> cancelling,
      pc |-> "none",                    \* the filesystem callback the pipeline waits for
      targetFile |-> NoPath, targetDirectory |-> NoPath,
      nCompleted |-> 0,                 \* invocations of opts.onCompleted
      canceled |-> FALSE, error |-> "none",   \* payload of the completion
      payloads |-> <<>>,                \* the arguments opts.onCompleted received
      raised |-> FALSE,                 \* an exception left deployFile
      exists |-> FALSE,                 \* what FS.exists reported
      created |-> FALSE,                \* FSExtra.mkdirs reported success
      nExists |-> 0, nMkdirs |-> 0, nBefore |-> 0, nCopy |-> 0 ]

NewRun(files, target, hasBeforeFile, hasCompleted, hasFileCompleted, hasOpts) ==
    [ files |-> files, target |-> target,
      hasOpts |-> hasOpts,              \* opts is given (it is optional in the contract)
      hasBeforeFile |-> hasBeforeFile,  \* opts.onBeforeDeployFile is given
      hasCompleted |-> hasCompleted,    \* opts.onCompleted is given
      hasFileCompleted |-> hasFileCompleted,  \* opts.onFileCompleted is given
      cancelAtEntry |-> cancelling,
      pc |-> "none",                    \* the filesystem callback the run waits for
      started |-> FALSE,                \* startDeploying was called
      targetDir |-> NoPath,
      todo |-> files,                   \* base class: the files not yet handed to deployFile
      nCompleted |-> 0,                 \* invocations of opts.onCompleted
      canceled |-> FALSE, error |-> "none",   \* payload of the workspace completion
      raised |-> FALSE,                 \* an exception left deployWorkspace
      nFileCompleted |-> 0,             \* invocations of opts.onFileCompleted
      nEmptyDir |-> 0,                  \* requests of FSExtra.emptyDir
      emptied |-> FALSE ]               \* FSExtra.emptyDir reported success

-----------------------------------------------------------------------------
(* Transform Pipeline, from section 4.2 of the specification *)

\* the two results of the pipeline: a byte buffer, or a TransformError
BufferResult(data) == [ok |-> TRUE, data |-> data]
TransformError(cause) == [ok |-> FALSE, error |-> "TransformError", cause |-> cause]

\* the shift transformer: transformData adds the key to every byte, restoreData
\* takes it away again
shift(ctx) ==
    LET k == IF ctx.mode = "Transform" THEN ctx.options.key ELSE 256 - ctx.options.key
    IN [i \in DOMAIN ctx.data |-> (ctx.data[i] + k) % 256]

\* apply that passes the buffer through when the direction's function is missing
apply_SilentNoOp(buffer, mode, module, options) ==
    LET ctx == [data |-> buffer, mode |-> mode, options |-> options]
        transformer == IF mode = "Transform" THEN module.transformData ELSE module.restoreData
    IN IF ~module.configured THEN BufferResult(buffer)
       ELSE IF transformer = "absent" THEN BufferResult(buffer)
       ELSE IF transformer = "throws" THEN TransformError("thrown")
       ELSE BufferResult(shift(ctx))

\* apply(buffer, mode, module?, options?)
apply(buffer, mode, module, options) ==
    LET ctx == [data |-> buffer, mode |-> mode, options |-> options]
        transformer == IF mode = "Transform" THEN module.transformData ELSE module.restoreData
    IN IF ~module.configured THEN BufferResult(buffer)
       ELSE IF transformer = "absent" THEN TransformError("missing")
       ELSE IF transformer = "throws" THEN TransformError("thrown")
       ELSE BufferResult(shift(ctx))

-----------------------------------------------------------------------------

NoInfo == [description |-> ""]

\* info that tags the instance with its own type name
info_SetsType(self) ==
    [ result |-> [description |-> "Deploys to a local folder or a shared folder (like SMB) inside your LAN"],
      self |-> [self EXCEPT !.__type = "LocalPlugin"] ]

\* local.ts 183-187: info() returns the description and assigns nothing
info(self) ==
    [ result |-> [description |-> "Deploys to a local folder or a shared folder (like SMB) inside your LAN"],
      self |-> self ]

\* local.ts 143-151: the completed closure of deployWorkspace
\* opts.onCompleted of an undefined opts raises a TypeError
completedWorkspace(S, w, err, canceled) ==
    IF ~S.wss[w].hasOpts THEN [S EXCEPT !.wss[w].raised = TRUE]
    ELSE [S EXCEPT !.wss[w].nCompleted = IF S.wss[w].hasCompleted THEN @ + 1 ELSE @,
                   !.wss[w].error = err,
                   !.wss[w].canceled = canceled]

\* the arguments object the completed closure of deployFile builds
FileDeployedCompletedEventArguments(canceled, err, file, target) ==
    [canceled |-> canceled, error |-> err, file |-> file, target |-> target]

\* completed reporting the destination in place of the deployed file
completed_ReportsDestination(S, c, err, canceled) ==
    LET call == S.calls[c]
        e == FileDeployedCompletedEventArguments(canceled, err, call.targetFile, call.target)
        S1 == [S EXCEPT !.calls[c].nCompleted = IF call.hasCompleted THEN @ + 1 ELSE @,
                        !.calls[c].payloads = IF call.hasCompleted THEN Append(@, e) ELSE @,
                        !.calls[c].error = err,
                        !.calls[c].canceled = canceled]
    IN IF call.ws # 0 THEN fileCompleted(S1, call.ws) ELSE S1

\* local.ts 63-72: the completed closure of deployFile
completed(S, c, err, canceled) ==
    LET call == S.calls[c]
        e == FileDeployedCompletedEventArguments(canceled, err, call.file, call.target)
        S1 == [S EXCEPT !.calls[c].nCompleted = IF call.hasCompleted THEN @ + 1 ELSE @,
                        !.calls[c].payloads = IF call.hasCompleted THEN Append(@, e) ELSE @,
                        !.calls[c].error = err,
                        !.calls[c].canceled = canceled]
    IN IF call.ws # 0 THEN fileCompleted(S1, call.ws) ELSE S1

\* base class: the onCompleted it hands to deployFile; reports the file to
\* opts.onFileCompleted when that is given, then goes on
fileCompleted(S, w) ==
    deployNextFile([S EXCEPT !.wss[w].nFileCompleted =
                                 IF S.wss[w].hasFileCompleted THEN @ + 1 ELSE @], w)

\* base class: the terminal completion of the sequencing; an omitted opts is
\* taken as an empty one
completedSequence(S, w, canceled) ==
    [S EXCEPT !.wss[w].nCompleted = IF S.wss[w].hasCompleted THEN @ + 1 ELSE @,
              !.wss[w].canceled = canceled]

\* base class: one iteration of the sequencing: the workspace completion when
\* no file is left; the canceled completion, the remaining files untouched,
\* when cancellation is requested; else the next file of the list, in list order
deployNextFile(S, w) ==
    LET run == S.wss[w]
    IN IF run.todo = <<>> THEN
           completedSequence(S, w, FALSE)
       ELSE IF cancelling THEN
           completedSequence(S, w, TRUE)
       ELSE
           deployFile([S EXCEPT !.wss[w].todo = Tail(@)],
                      Head(run.todo), run.target, NoPath, TRUE, run.hasBeforeFile,
                      w, Len(run.files) - Len(run.todo) + 1)

\* deployFile without the check of context.isCancelling()
deployFile_NoCancelCheck(S, file, target, baseDirectory, hasCompleted, hasBefore, w, idx) ==
    LET c == Len(S.calls) + 1
        S0 == [S EXCEPT !.calls = Append(@, NewCall(file, target, baseDirectory,
                                                    hasCompleted, hasBefore, w, idx))]
        dir == getFullDirPathFromTarget(target)
        relativeTargetFilePath == toRelativeTargetPath(file, target, baseDirectory)
        targetFile == Join(dir.path, relativeTargetFilePath.path)
    IN IF ~dir.ok THEN
           [S0 EXCEPT !.calls[c].raised = TRUE]
       ELSE IF ~relativeTargetFilePath.ok THEN
           completed(S0, c, "mapping", FALSE)
       ELSE
           [S0 EXCEPT !.calls[c].pc = "exists",
                      !.calls[c].nExists = @ + 1,
                      !.calls[c].targetFile = targetFile,
                      !.calls[c].targetDirectory = Dirname(targetFile)]

\* deployFile without the check of the path mapper's result: Path.join raises
deployFile_NoMappingCheck(S, file, target, baseDirectory, hasCompleted, hasBefore, w, idx) ==
    LET c == Len(S.calls) + 1
        S0 == [S EXCEPT !.calls = Append(@, NewCall(file, target, baseDirectory,
                                                    hasCompleted, hasBefore, w, idx))]
        dir == getFullDirPathFromTarget(target)
        relativeTargetFilePath == toRelativeTargetPath(file, target, baseDirectory)
        targetFile == Join(dir.path, relativeTargetFilePath.path)
    IN IF ~dir.ok THEN
           [S0 EXCEPT !.calls[c].raised = TRUE]
       ELSE IF cancelling THEN
           completed(S0, c, "none", TRUE)
       ELSE IF ~relativeTargetFilePath.ok THEN
           [S0 EXCEPT !.calls[c].raised = TRUE]
       ELSE
           [S0 EXCEPT !.calls[c].pc = "exists",
                      !.calls[c].nExists = @ + 1,
                      !.calls[c].targetFile = targetFile,
                      !.calls[c].targetDirectory = Dirname(targetFile)]

\* deployFile asking for the relative path, not for the mapped relative path
deployFile_IgnoresMappings(S, file, target, baseDirectory, hasCompleted, hasBefore, w, idx) ==
    LET c == Len(S.calls) + 1
        S0 == [S EXCEPT !.calls = Append(@, NewCall(file, target, baseDirectory,
                                                    hasCompleted, hasBefore, w, idx))]
        dir == getFullDirPathFromTarget(target)
        relativeTargetFilePath == toRelativePath(file, baseDirectory)
        targetFile == Join(dir.path, relativeTargetFilePath.path)
    IN IF ~dir.ok THEN
           [S0 EXCEPT !.calls[c].raised = TRUE]
       ELSE IF cancelling THEN
           completed(S0, c, "none", TRUE)
       ELSE IF ~relativeTargetFilePath.ok THEN
           completed(S0, c, "mapping", FALSE)
       ELSE
           [S0 EXCEPT !.calls[c].pc = "exists",
                      !.calls[c].nExists = @ + 1,
                      !.calls[c].targetFile = targetFile,
                      !.calls[c].targetDirectory = Dirname(targetFile)]

\* local.ts 54-133, up to the request of FS.exists
deployFile(S, file, target, baseDirectory, hasCompleted, hasBefore, w, idx) ==
    LET c == Len(S.calls) + 1
        S0 == [S EXCEPT !.calls = Append(@, NewCall(file, target, baseDirectory,
                                                    hasCompleted, hasBefore, w, idx))]
        dir == getFullDirPathFromTarget(target)
        relativeTargetFilePath == toRelativeTargetPath(file, target, baseDirectory)
        targetFile == Join(dir.path, relativeTargetFilePath.path)
    IN IF ~dir.ok THEN
           [S0 EXCEPT !.calls[c].raised = TRUE]
       ELSE IF cancelling THEN
           completed(S0, c, "none", TRUE)
       ELSE IF ~relativeTargetFilePath.ok THEN
           completed(S0, c, "mapping", FALSE)
       ELSE
           [S0 EXCEPT !.calls[c].pc = "exists",
                      !.calls[c].nExists = @ + 1,
                      !.calls[c].targetFile = targetFile,
                      !.calls[c].targetDirectory = Dirname(targetFile)]

\* the deployFile closure without its try/catch: a throwing hook is not reported
deployFileInner_NoCatch(S, c, throws) ==
    LET S1 == IF S.calls[c].hasBefore THEN [S EXCEPT !.calls[c].nBefore = @ + 1] ELSE S
    IN IF S.calls[c].hasBefore /\ throws THEN
           [S1 EXCEPT !.calls[c].raised = TRUE]
       ELSE
           [S1 EXCEPT !.calls[c].pc = "copy", !.calls[c].nCopy = @ + 1]

\* the deployFile closure reporting completion when the copy starts, not when it ends
deployFileInner_EarlyCompletion(S, c, throws) ==
    LET S1 == IF S.calls[c].hasBefore THEN [S EXCEPT !.calls[c].nBefore = @ + 1] ELSE S
    IN IF S.calls[c].hasBefore /\ throws THEN
           completed(S1, c, "hook", FALSE)
       ELSE
           completed([S1 EXCEPT !.calls[c].pc = "copy", !.calls[c].nCopy = @ + 1],
                     c, "none", FALSE)

\* local.ts 88-114: the deployFile closure; throws: opts.onBeforeDeploy throws
deployFileInner(S, c, throws) ==
    LET S1 == IF S.calls[c].hasBefore THEN [S EXCEPT !.calls[c].nBefore = @ + 1] ELSE S
    IN IF S.calls[c].hasBefore /\ throws THEN
           completed(S1, c, "hook", FALSE)
       ELSE
           [S1 EXCEPT !.calls[c].pc = "copy", !.calls[c].nCopy = @ + 1]

\* local.ts 158-160: startDeploying, the base class sequencing
startDeploying(S, w) ==
    deployNextFile([S EXCEPT !.wss[w].started = TRUE], w)

\* existsCallback that creates the directory whatever FS.exists reported
existsCallback_AlwaysMkdirs(S, c, exists, throws) ==
    LET S0 == [S EXCEPT !.calls[c].pc = "none", !.calls[c].exists = exists]
    IN [S0 EXCEPT !.calls[c].pc = "mkdirs", !.calls[c].nMkdirs = @ + 1]

\* local.ts 117-132: the callback of FS.exists
existsCallback(S, c, exists, throws) ==
    LET S0 == [S EXCEPT !.calls[c].pc = "none", !.calls[c].exists = exists]
    IN IF exists THEN deployFileInner(S0, c, throws)
       ELSE [S0 EXCEPT !.calls[c].pc = "mkdirs", !.calls[c].nMkdirs = @ + 1]

\* mkdirsCallback that drops the error instead of reporting it
mkdirsCallback_NoCompletion(S, c, err, throws) ==
    LET S0 == [S EXCEPT !.calls[c].pc = "none", !.calls[c].created = ~err]
    IN IF err THEN S0
       ELSE deployFileInner(S0, c, throws)

\* mkdirsCallback without the return that follows completed(err)
mkdirsCallback_NoReturn(S, c, err, throws) ==
    LET S0 == [S EXCEPT !.calls[c].pc = "none", !.calls[c].created = ~err]
    IN IF err THEN deployFileInner(completed(S0, c, "mkdirs", FALSE), c, throws)
       ELSE deployFileInner(S0, c, throws)

\* local.ts 123-130: the callback of FSExtra.mkdirs
mkdirsCallback(S, c, err, throws) ==
    LET S0 == [S EXCEPT !.calls[c].pc = "none", !.calls[c].created = ~err]
    IN IF err THEN completed(S0, c, "mkdirs", FALSE)
       ELSE deployFileInner(S0, c, throws)

\* copyCallback reading the cancellation flag when the copy ends
copyCallback_ChecksCancel(S, c, err) ==
    LET S0 == [S EXCEPT !.calls[c].pc = "none"]
    IN IF cancelling THEN completed(S0, c, "none", TRUE)
       ELSE IF err THEN completed(S0, c, "copy", FALSE)
       ELSE completed(S0, c, "none", FALSE)

\* copyCallback without the return that follows completed(err)
copyCallback_NoReturn(S, c, err) ==
    LET S0 == [S EXCEPT !.calls[c].pc = "none"]
    IN IF err THEN completed(completed(S0, c, "copy", FALSE), c, "none", FALSE)
       ELSE completed(S0, c, "none", FALSE)

\* local.ts 102-109: the callback of FSExtra.copy
copyCallback(S, c, err) ==
    LET S0 == [S EXCEPT !.calls[c].pc = "none"]
    IN IF err THEN completed(S0, c, "copy", FALSE)
       ELSE completed(S0, c, "none", FALSE)

\* emptyDirCallback without the return that follows completed(err)
emptyDirCallback_NoReturn(S, w, err) ==
    LET S0 == [S EXCEPT !.wss[w].pc = "none"]
    IN IF err THEN startDeploying(completedWorkspace(S0, w, "emptyDir", FALSE), w)
       ELSE startDeploying([S0 EXCEPT !.wss[w].emptied = TRUE], w)

\* local.ts 166-176: the callback of FSExtra.emptyDir
emptyDirCallback(S, w, err) ==
    LET S0 == [S EXCEPT !.wss[w].pc = "none"]
    IN IF err THEN completedWorkspace(S0, w, "emptyDir", FALSE)
       ELSE startDeploying([S0 EXCEPT !.wss[w].emptied = TRUE], w)

\* deployWorkspace that looks at target.empty before it looks at the cancellation
deployWorkspace_EmptyFirst(S, files, target, hasBeforeFile, hasCompleted, hasFileCompleted, hasOpts) ==
    LET w == Len(S.wss) + 1
        S0 == [S EXCEPT !.wss = Append(@, NewRun(files, target, hasBeforeFile, hasCompleted,
                                                  hasFileCompleted, hasOpts))]
        targetDir == IF target.dir.abs THEN target.dir.segs
                     ELSE IF rootPath = NoPath THEN NoPath
                     ELSE Join(rootPath, target.dir.segs)
        S1 == [S0 EXCEPT !.wss[w].targetDir = targetDir]
    IN IF targetDir = NoPath THEN
           [S0 EXCEPT !.wss[w].raised = TRUE]
       ELSE IF target.empty THEN
           [S1 EXCEPT !.wss[w].pc = "emptying", !.wss[w].nEmptyDir = @ + 1]
       ELSE IF cancelling THEN
           completedWorkspace(S1, w, "none", TRUE)
       ELSE
           startDeploying(S1, w)

\* local.ts 135-181, up to the request of FSExtra.emptyDir
deployWorkspace(S, files, target, hasBeforeFile, hasCompleted, hasFileCompleted, hasOpts) ==
    LET w == Len(S.wss) + 1
        S0 == [S EXCEPT !.wss = Append(@, NewRun(files, target, hasBeforeFile, hasCompleted,
                                                  hasFileCompleted, hasOpts))]
        targetDir == IF target.dir.abs THEN target.dir.segs
                     ELSE IF rootPath = NoPath THEN NoPath
                     ELSE Join(rootPath, target.dir.segs)
        S1 == [S0 EXCEPT !.wss[w].targetDir = targetDir]
    IN IF targetDir = NoPath THEN
           [S0 EXCEPT !.wss[w].raised = TRUE]
       ELSE IF cancelling THEN
           completedWorkspace(S1, w, "none", TRUE)
       ELSE IF target.empty THEN
           [S1 EXCEPT !.wss[w].pc = "emptying", !.wss[w].nEmptyDir = @ + 1]
       ELSE
           startDeploying(S1, w)

-----------------------------------------------------------------------------
(* State *)

State == [calls |-> calls, wss |-> wss]

\* the host has not called the plugin yet
Idle == calls = <<>> /\ wss = <<>>

\* the calls of deployFile made by run w of deployWorkspace
CallsOf(w) == { c \in DOMAIN calls : calls[c].ws = w }

\* no filesystem callback of the pipeline is pending
AtRest(c) == calls[c].pc = "none"

\* no filesystem callback of the run, or of a pipeline of it, is pending
RunAtRest(w) == wss[w].pc = "none" /\ \A c \in CallsOf(w) : AtRest(c)

NotApplied == [applied |-> FALSE]

InitCommon ==
    /\ me \in RegisteredIdentities
    /\ lastInfo = NoInfo
    /\ transformed = NotApplied
    /\ cancelling = FALSE
    /\ calls = <<>>
    /\ wss = <<>>

\* a workspace folder is open
Init ==
    /\ rootPath = WorkspaceRoot
    /\ InitCommon

\* a workspace folder is open, or none is
InitAnyRoot ==
    /\ rootPath \in {WorkspaceRoot, NoPath}
    /\ InitCommon

-----------------------------------------------------------------------------
(* Actions *)

\* the user cancels: context.isCancelling() turns true
RequestCancel ==
    /\ ~cancelling
    /\ cancelling' = TRUE
    /\ UNCHANGED <<rootPath, calls, wss, me, lastInfo, transformed>>

\* the host calls plugin.deployFile(file, target, opts)
DeployFile(file, target, baseDirectory, hasCompleted, hasBefore) ==
    /\ Idle
    /\ LET S == deployFile(State, file, target, baseDirectory, hasCompleted, hasBefore, 0, 0)
       IN /\ calls' = S.calls
          /\ wss' = S.wss
    /\ UNCHANGED <<rootPath, cancelling, me, lastInfo, transformed>>

\* FS.exists calls back
ExistsCallback(c, exists, throws) ==
    /\ calls[c].pc = "exists"
    /\ LET S == existsCallback(State, c, exists, throws)
       IN /\ calls' = S.calls
          /\ wss' = S.wss
    /\ UNCHANGED <<rootPath, cancelling, me, lastInfo, transformed>>

\* FSExtra.mkdirs calls back
MkdirsCallback(c, err, throws) ==
    /\ calls[c].pc = "mkdirs"
    /\ LET S == mkdirsCallback(State, c, err, throws)
       IN /\ calls' = S.calls
          /\ wss' = S.wss
    /\ UNCHANGED <<rootPath, cancelling, me, lastInfo, transformed>>

\* FSExtra.copy calls back
CopyCallback(c, err) ==
    /\ calls[c].pc = "copy"
    /\ LET S == copyCallback(State, c, err)
       IN /\ calls' = S.calls
          /\ wss' = S.wss
    /\ UNCHANGED <<rootPath, cancelling, me, lastInfo, transformed>>

\* the host calls plugin.deployWorkspace(files, target, opts)
DeployWorkspace(files, target, opts) ==
    /\ Idle
    /\ LET S == deployWorkspace(State, files, target, opts.onBeforeDeployFile,
                                opts.onCompleted, opts.onFileCompleted, TRUE)
       IN /\ calls' = S.calls
          /\ wss' = S.wss
    /\ UNCHANGED <<rootPath, cancelling, me, lastInfo, transformed>>

\* the host calls plugin.deployWorkspace(files, target), opts omitted
DeployWorkspaceOmittedOpts(files, target) ==
    /\ Idle
    /\ LET S == deployWorkspace(State, files, target, FALSE, FALSE, FALSE, FALSE)
       IN /\ calls' = S.calls
          /\ wss' = S.wss
    /\ UNCHANGED <<rootPath, cancelling, me, lastInfo, transformed>>

\* the host calls plugin.info()
Info ==
    /\ LET r == info(me)
       IN /\ lastInfo' = r.result
          /\ me' = r.self
    /\ UNCHANGED <<rootPath, cancelling, calls, wss, transformed>>

\* FSExtra.emptyDir calls back
EmptyDirCallback(w, err) ==
    /\ wss[w].pc = "emptying"
    /\ LET S == emptyDirCallback(State, w, err)
       IN /\ calls' = S.calls
          /\ wss' = S.wss
    /\ UNCHANGED <<rootPath, cancelling, me, lastInfo, transformed>>

Next ==
    \/ RequestCancel
    \/ \E file \in Files, target \in Targets, baseDirectory \in BaseDirectories,
          hasCompleted \in BOOLEAN, hasBefore \in BOOLEAN :
          DeployFile(file, target, baseDirectory, hasCompleted, hasBefore)
    \/ \E c \in DOMAIN calls, exists \in BOOLEAN, throws \in BOOLEAN :
          ExistsCallback(c, exists, throws)
    \/ \E c \in DOMAIN calls, err \in BOOLEAN, throws \in BOOLEAN : MkdirsCallback(c, err, throws)
    \/ \E c \in DOMAIN calls, err \in BOOLEAN : CopyCallback(c, err)
    \/ \E files \in SeqsUpTo(Files, MaxFiles), target \in Targets,
          opts \in DeployWorkspaceOptions :
          DeployWorkspace(files, target, opts)
    \/ \E w \in DOMAIN wss, err \in BOOLEAN : EmptyDirCallback(w, err)
    \/ Info

Spec == Init /\ [][Next]_vars

SpecAnyRoot == InitAnyRoot /\ [][Next]_vars

\* the host may also call deployWorkspace without options
NextOmittedOpts ==
    \/ Next
    \/ \E files \in SeqsUpTo(Files, MaxFiles), target \in Targets :
          DeployWorkspaceOmittedOpts(files, target)

SpecOmittedOpts == Init /\ [][NextOmittedOpts]_vars

\* the transform pipeline is applied to a buffer
ApplyTransform(buffer, mode, module, options) ==
    /\ transformed' = [applied |-> TRUE, buffer |-> buffer, mode |-> mode, module |-> module,
                       options |-> options, result |-> apply(buffer, mode, module, options)]
    /\ UNCHANGED <<rootPath, cancelling, calls, wss, me, lastInfo>>

NextTransform ==
    \E buffer \in SeqsUpTo(Bytes, MaxBuffer), mode \in DataTransformerMode,
       module \in DataTransformModules \cup {NoModule}, options \in TransformerOptions :
       ApplyTransform(buffer, mode, module, options)

\* the transform pipeline on its own: the local plugin never applies it
SpecTransform == Init /\ [][NextTransform]_vars

-----------------------------------------------------------------------------
(* Properties *)

\* the pipeline of call c made no filesystem request and did not call the before hook
NoTransport(c) ==
    /\ calls[c].nExists = 0
    /\ calls[c].nMkdirs = 0
    /\ calls[c].nBefore = 0
    /\ calls[c].nCopy = 0

\* C1: a deployFile call that was given onCompleted has invoked it at most
\* once in every state, and exactly once as soon as none of its filesystem
\* callbacks is pending, whatever the cancellation flag, the path mapping,
\* FS.exists, mkdirs, the onBeforeDeploy hook and the copy did.
C1_OnCompletedExactlyOnce ==
    \A c \in DOMAIN calls :
        calls[c].hasCompleted =>
            /\ calls[c].nCompleted <= 1
            /\ AtRest(c) => calls[c].nCompleted = 1

\* a failed copy was reported, once, to a direct call
C1_Witness ==
    \E c \in DOMAIN calls :
        /\ calls[c].ws = 0
        /\ calls[c].hasCompleted
        /\ calls[c].nCopy = 1
        /\ AtRest(c)
        /\ calls[c].error = "copy"
        /\ calls[c].nCompleted = 1

\* C2: a deployFile call entered while context.isCancelling() is true makes
\* no FS.exists check, no mkdirs, no onBeforeDeploy call and no copy, and its
\* single completion reports canceled = true and no error.
C2_CancellationShortCircuit ==
    \A c \in DOMAIN calls :
        calls[c].cancelAtEntry =>
            /\ NoTransport(c)
            /\ AtRest(c)
            /\ calls[c].canceled
            /\ calls[c].error = "none"
            /\ calls[c].hasCompleted => calls[c].nCompleted = 1

\* a direct call entered under cancellation, for a file that could be deployed
C2_Witness ==
    \E c \in DOMAIN calls :
        /\ calls[c].ws = 0
        /\ calls[c].cancelAtEntry
        /\ calls[c].hasCompleted
        /\ toRelativeTargetPath(calls[c].file, calls[c].target, calls[c].baseDirectory).ok
        /\ calls[c].nCompleted = 1
        /\ calls[c].canceled

\* FSExtra.emptyDir was requested and reported an error
EmptyingFailed(w) == wss[w].nEmptyDir = 1 /\ wss[w].pc = "none" /\ ~wss[w].emptied

\* the invocations of the workspace onCompleted a finished run owes: one,
\* or none when opts carries no onCompleted
Once(w) == IF wss[w].hasCompleted THEN 1 ELSE 0

\* the run was cut short before any file: cancelled at entry, or emptying failed
ShortCircuited(w) == wss[w].cancelAtEntry \/ EmptyingFailed(w)

\* the sequencing found cancellation requested before one of the files
StoppedBetweenFiles(w) == wss[w].canceled /\ ~wss[w].cancelAtEntry

\* the invocations of onFileCompleted n completed files owe: n, or none when
\* opts carries no onFileCompleted
PerFile(w, n) == IF wss[w].hasFileCompleted THEN n ELSE 0

\* C3, as stated: for N files in a workspace deploy, exactly N onFileCompleted
\* invocations and exactly one workspace onCompleted invocation occur.
C3_Original ==
    \A w \in DOMAIN wss :
        RunAtRest(w) =>
            /\ wss[w].nFileCompleted = PerFile(w, Len(wss[w].files))
            /\ wss[w].nCompleted = Once(w)

\* C3, amended: every workspace deploy invokes the workspace onCompleted
\* exactly once; it invokes onFileCompleted exactly once for every file it
\* handed to deployFile, regardless of individual file failures: for all N
\* files, unless the run ends early, and then for the files before the end
\* only (none when cancelled at entry or when the emptying failed, those
\* before the cancellation when it is found between two files).
C3_CallbackCardinality ==
    \A w \in DOMAIN wss :
        /\ wss[w].nCompleted <= 1
        /\ wss[w].nFileCompleted <= Len(wss[w].files)
        /\ RunAtRest(w) =>
              /\ wss[w].nCompleted = Once(w)
              /\ wss[w].nFileCompleted = PerFile(w, Cardinality(CallsOf(w)))
              /\ Cardinality(CallsOf(w)) + Len(wss[w].todo) = Len(wss[w].files)
              /\ ShortCircuited(w) => CallsOf(w) = {}
              /\ wss[w].todo # <<>> => (ShortCircuited(w) \/ StoppedBetweenFiles(w))
              /\ StoppedBetweenFiles(w) => (wss[w].todo # <<>> /\ wss[w].error = "none")

\* a run over two files, all callbacks given, was stopped by a cancellation
\* found after its first file had failed: one file callback, one completion
C3_Witness ==
    \E w \in DOMAIN wss :
        /\ RunAtRest(w)
        /\ Len(wss[w].files) = 2
        /\ StoppedBetweenFiles(w)
        /\ \E c \in CallsOf(w) : calls[c].error # "none"
        /\ wss[w].hasFileCompleted
        /\ wss[w].nFileCompleted = 1
        /\ wss[w].nCompleted = 1

\* C4: with target.empty, no file pipeline exists while the emptying is under
\* way, and every pipeline is preceded by the success of the emptying; after a
\* failed emptying the sequencing was never started, no pipeline exists and
\* the one workspace completion carries the emptying error.
C4_EmptyThenDeploy ==
    \A w \in DOMAIN wss :
        (wss[w].target.empty /\ ~wss[w].cancelAtEntry) =>
            /\ wss[w].nEmptyDir = 1
            /\ wss[w].pc = "emptying" => (CallsOf(w) = {} /\ ~wss[w].started)
            /\ (CallsOf(w) # {} \/ wss[w].started) => wss[w].emptied
            /\ EmptyingFailed(w) =>
                  /\ ~wss[w].started
                  /\ CallsOf(w) = {}
                  /\ wss[w].todo = wss[w].files
                  /\ wss[w].nCompleted = Once(w)
                  /\ wss[w].error = "emptyDir"
                  /\ ~wss[w].canceled

\* the emptying succeeded and a file of the run is being copied
C4_Witness ==
    \E w \in DOMAIN wss :
        /\ wss[w].target.empty
        /\ wss[w].emptied
        /\ \E c \in CallsOf(w) : calls[c].pc = "copy"

\* C5: a deployWorkspace entered while cancellation is requested invokes the
\* workspace onCompleted once with canceled = true, requests no emptying even
\* when target.empty is set, and starts no file pipeline.
C5_WorkspaceCancellationShortCircuit ==
    \A w \in DOMAIN wss :
        wss[w].cancelAtEntry =>
            /\ wss[w].nCompleted = Once(w)
            /\ wss[w].canceled
            /\ wss[w].error = "none"
            /\ wss[w].nEmptyDir = 0
            /\ wss[w].pc = "none"
            /\ ~wss[w].started
            /\ CallsOf(w) = {}
            /\ wss[w].nFileCompleted = 0

\* a run with files and target.empty was entered under cancellation
C5_Witness ==
    \E w \in DOMAIN wss :
        /\ wss[w].cancelAtEntry
        /\ wss[w].target.empty
        /\ wss[w].files # <<>>
        /\ wss[w].nCompleted = 1

\* the step of call c that its completion blames is a step call c took
OwnError(c) ==
    /\ calls[c].error = "mapping" =>
          ~toRelativeTargetPath(calls[c].file, calls[c].target, calls[c].baseDirectory).ok
    /\ calls[c].error = "mkdirs" => (calls[c].nMkdirs = 1 /\ calls[c].nCopy = 0)
    /\ calls[c].error = "hook" => (calls[c].nBefore = 1 /\ calls[c].nCopy = 0)
    /\ calls[c].error = "copy" => calls[c].nCopy = 1

\* C6: in a workspace deploy the failure of a file is reported in that file's
\* completion only: the workspace completion of a run that started deploying
\* carries no error, every file of the list gets its pipeline and its one
\* completion whatever happened to the others, and only a failed emptying
\* or a cancellation leaves files of the list without pipeline.
C6_ErrorLocality ==
    \A w \in DOMAIN wss :
        /\ wss[w].started => wss[w].error = "none"
        /\ \A c \in CallsOf(w) :
              /\ OwnError(c)
              /\ calls[c].file = wss[w].files[calls[c].idx]
              /\ (~calls[c].cancelAtEntry
                    /\ toRelativeTargetPath(calls[c].file, calls[c].target,
                                            calls[c].baseDirectory).ok)
                 => calls[c].nExists = 1
        /\ RunAtRest(w) =>
              /\ \A c \in CallsOf(w) : calls[c].nCompleted = 1
              /\ { calls[c].idx : c \in CallsOf(w) } =
                    IF ShortCircuited(w) THEN {}
                    ELSE IF wss[w].canceled THEN 1..(Len(wss[w].files) - Len(wss[w].todo))
                    ELSE 1..Len(wss[w].files)

\* the first file of a run failed and the copy of the second one succeeded
C6_Witness ==
    \E w \in DOMAIN wss :
        \E c, d \in CallsOf(w) :
            /\ calls[c].idx = 1
            /\ calls[c].error \in {"mkdirs", "copy", "mapping"}
            /\ calls[d].idx = 2
            /\ calls[d].nCopy = 1
            /\ AtRest(d)
            /\ calls[d].nCompleted = 1
            /\ calls[d].error = "none"

\* C7: the pipelines of a workspace deploy are created in list order, and
\* when the pipeline of a later file exists, the pipeline of every earlier
\* file has no callback pending and has invoked its completion.
C7_SequentialOrdering ==
    \A w \in DOMAIN wss :
        \A c, d \in CallsOf(w) :
            /\ calls[c].file = wss[w].files[calls[c].idx]
            /\ calls[c].idx < calls[d].idx =>
                  /\ c < d
                  /\ AtRest(c)
                  /\ calls[c].nCompleted = 1
            /\ calls[c].idx = calls[d].idx => c = d

\* the second file is being checked after the first one was copied
C7_Witness ==
    \E w \in DOMAIN wss :
        \E c, d \in CallsOf(w) :
            /\ calls[c].idx = 1
            /\ calls[c].nCopy = 1
            /\ calls[c].nCompleted = 1
            /\ calls[d].idx = 2
            /\ calls[d].pc = "exists"

\* the path mapper fails for the file of call c
MappingFails(c) ==
    ~toRelativeTargetPath(calls[c].file, calls[c].target, calls[c].baseDirectory).ok

\* C8: when the path mapper reports failure (and the call is not cancelled at
\* entry), deployFile invokes onCompleted with an error, makes no FS.exists
\* check, no mkdirs, no copy and no onBeforeDeploy call, and does not raise.
C8_MappingFailure ==
    \A c \in DOMAIN calls :
        (MappingFails(c) /\ ~calls[c].cancelAtEntry) =>
            /\ NoTransport(c)
            /\ AtRest(c)
            /\ ~calls[c].raised
            /\ calls[c].error = "mapping"
            /\ ~calls[c].canceled
            /\ calls[c].hasCompleted => calls[c].nCompleted = 1

\* a direct call for a file outside the workspace
C8_Witness ==
    \E c \in DOMAIN calls :
        /\ calls[c].ws = 0
        /\ calls[c].file = FileOutside
        /\ ~calls[c].cancelAtEntry
        /\ calls[c].hasCompleted
        /\ calls[c].nCompleted = 1
        /\ calls[c].error = "mapping"

\* C9, as stated: no error of deployFile is raised to the caller, each is
\* delivered through the completion callback: a failed mkdirs, a failed copy,
\* a throwing onBeforeDeploy hook, a failure to resolve the target's root.
C9_ErrorsDelivered ==
    \A c \in DOMAIN calls :
        /\ ~calls[c].raised
        /\ (AtRest(c) /\ calls[c].hasCompleted) => calls[c].nCompleted = 1

\* the directory a path denotes, read from the left: "." stays where it is,
\* ".." goes up one directory
RECURSIVE Resolved(_, _)
Resolved(at, p) ==
    IF p = <<>> THEN at
    ELSE IF Head(p) = "." THEN Resolved(at, Tail(p))
    ELSE IF Head(p) = ".." THEN
        Resolved(IF at = <<>> THEN <<>> ELSE SubSeq(at, 1, Len(at) - 1), Tail(p))
    ELSE Resolved(Append(at, Head(p)), Tail(p))

\* the mappings of call c that match the file's relative directory
MatchingIndices(c) ==
    LET rel == toRelativePath(calls[c].file, calls[c].baseDirectory).path
        ms == calls[c].target.mappings
    IN { i \in DOMAIN ms : IsPrefix(ms[i].source, Dirname(rel)) }

\* C10: when mappings match, the destination is the target root (the
\* directory target.dir denotes), then the
\* target prefix of the first matching mapping, then the rest of the relative
\* path with the filename; no later mapping is applied instead of the first
\* one or on top of it.
C10_FirstMatchWins ==
    \A c \in DOMAIN calls :
        (calls[c].nExists > 0 /\ MatchingIndices(c) # {}) =>
            LET rel == toRelativePath(calls[c].file, calls[c].baseDirectory).path
                ms == calls[c].target.mappings
                root == Resolved(<<>>, getFullDirPathFromTarget(calls[c].target).path)
                i == CHOOSE k \in MatchingIndices(c) : \A j \in MatchingIndices(c) : k <= j
                rest == SubSeq(rel, Len(ms[i].source) + 1, Len(rel))
                first == ms[i].target \o rest
            IN /\ calls[c].targetFile = root \o first
               /\ calls[c].targetDirectory = Dirname(root \o first)
               /\ rest[Len(rest)] = calls[c].file[Len(calls[c].file)]
               /\ \A j \in DOMAIN ms :
                     j > i =>
                        LET instead == ms[j].target \o SubSeq(rel, Len(ms[j].source) + 1, Len(rel))
                            onTop == ms[j].target \o SubSeq(first, Len(ms[j].source) + 1, Len(first))
                        IN /\ (j \in MatchingIndices(c) /\ instead # first)
                              => calls[c].targetFile # root \o instead
                           /\ IsPrefix(ms[j].source, Dirname(first))
                              => calls[c].targetFile # root \o onTop

\* a file whose relative directory two mappings match, with different results
C10_Witness ==
    \E c \in DOMAIN calls :
        /\ calls[c].nExists > 0
        /\ Cardinality(MatchingIndices(c)) = 2
        /\ calls[c].target.mappings = MappingsGeneral
        /\ calls[c].targetFile = <<"ws", "out", "out", "a", "x.txt">>

\* the root the claim describes: target.dir, './' when unset, as it is when
\* absolute and under the workspace root otherwise
DescribedRoot(target) ==
    LET dir == IF target.dir.segs = <<>> THEN <<".">> ELSE target.dir.segs
    IN IF target.dir.abs THEN Resolved(<<>>, target.dir.segs)
       ELSE Resolved(WorkspaceRoot, dir)

\* C11: when no mapping of the target matches (or there is none), the
\* destination is the target's root directory followed by the file's path
\* relative to the base directory, unchanged.
C11_FallbackResolution ==
    \A c \in DOMAIN calls :
        (calls[c].nExists > 0 /\ MatchingIndices(c) = {}) =>
            LET base == IF calls[c].baseDirectory = NoPath THEN WorkspaceRoot
                        ELSE calls[c].baseDirectory
                rel == SubSeq(calls[c].file, Len(base) + 1, Len(calls[c].file))
            IN /\ base \o rel = calls[c].file
               /\ calls[c].targetFile = DescribedRoot(calls[c].target) \o rel
               /\ calls[c].targetDirectory = Dirname(DescribedRoot(calls[c].target) \o rel)

\* an absolute target.dir, mappings none of which matches, a base directory
C11_Witness ==
    \E c \in DOMAIN calls :
        /\ calls[c].nExists > 0
        /\ calls[c].target.dir = DirAbsolute
        /\ calls[c].baseDirectory = <<"ws", "src">>
        /\ calls[c].file = FileSrc
        /\ MatchingIndices(c) = {}
        /\ calls[c].targetFile = <<"x", "y.txt">>

\* FSExtra.mkdirs was requested and reported an error
MkdirsFailed(c) == calls[c].nMkdirs = 1 /\ calls[c].pc # "mkdirs" /\ ~calls[c].created

\* C12: onBeforeDeploy is invoked at most once per deployFile call, and only
\* when FS.exists found the destination directory or mkdirs created it; the
\* copy is started at most once, after the hook (when one is given) was
\* invoked and returned: a hook that throws leaves the copy unstarted.
C12_HookOrdering ==
    \A c \in DOMAIN calls :
        /\ calls[c].nBefore <= 1
        /\ calls[c].nCopy <= 1
        /\ ~calls[c].hasBefore => calls[c].nBefore = 0
        /\ calls[c].nBefore = 1 => (calls[c].exists \/ calls[c].created)
        /\ calls[c].nCopy = 1 =>
              /\ calls[c].exists \/ calls[c].created
              /\ calls[c].hasBefore => calls[c].nBefore = 1
              /\ calls[c].error # "hook"
        /\ calls[c].error = "hook" => (calls[c].nBefore = 1 /\ calls[c].nCopy = 0)

\* the directory was created, the hook was called and the copy is under way
C12_Witness ==
    \E c \in DOMAIN calls :
        /\ calls[c].hasBefore
        /\ calls[c].created
        /\ calls[c].nBefore = 1
        /\ calls[c].pc = "copy"

\* C13: deployFile reads the flag at its top only: a call reports canceled
\* exactly when the flag was set at its entry, and then it has touched
\* nothing; a call that passed the entry check with the flag clear runs
\* its pipeline to the end (an error of its own, or the copy done) even when
\* cancellation becomes active meanwhile.
C13_NoMidCopyCancellation ==
    \A c \in DOMAIN calls :
          /\ calls[c].canceled = calls[c].cancelAtEntry
          /\ calls[c].cancelAtEntry =>
                (calls[c].nExists = 0 /\ calls[c].nCopy = 0 /\ calls[c].error = "none")
          /\ (~calls[c].cancelAtEntry /\ calls[c].pc = "none" /\ calls[c].error = "none"
                  /\ ~calls[c].raised) =>
                (calls[c].nCopy = 1 /\ (calls[c].hasCompleted => calls[c].nCompleted = 1))

\* cancellation became active while a copy was in progress, and the call
\* completed afterwards
C13_Witness ==
    /\ cancelling
    /\ \E c \in DOMAIN calls :
          /\ ~calls[c].cancelAtEntry
          /\ calls[c].nCopy = 1
          /\ calls[c].pc = "none"
          /\ calls[c].nCompleted = 1
          /\ ~calls[c].canceled

\* C16: when the destination directory is absent and FSExtra.mkdirs fails,
\* the call ends with the creation error: onCompleted (when given) is invoked
\* once with it, onBeforeDeploy is not invoked and the copy is not started;
\* when FS.exists finds the directory, FSExtra.mkdirs is never requested.
C16_DirectoryFailure ==
    \A c \in DOMAIN calls :
        /\ calls[c].exists => calls[c].nMkdirs = 0
        /\ calls[c].nMkdirs <= 1
        /\ MkdirsFailed(c) =>
              /\ ~calls[c].exists
              /\ calls[c].pc = "none"
              /\ calls[c].error = "mkdirs"
              /\ ~calls[c].canceled
              /\ calls[c].nCompleted = (IF calls[c].hasCompleted THEN 1 ELSE 0)
              /\ calls[c].nBefore = 0
              /\ calls[c].nCopy = 0

\* a call with both callbacks whose directory creation failed
C16_Witness ==
    \E c \in DOMAIN calls :
        /\ MkdirsFailed(c)
        /\ calls[c].hasBefore
        /\ calls[c].hasCompleted
        /\ calls[c].nCompleted = 1
        /\ calls[c].error = "mkdirs"

\* C18: the directory that deployWorkspace asks FSExtra.emptyDir to empty
\* (the one its path denotes) contains none of the files of the run.
C18_EmptyingSparesSources ==
    \A w \in DOMAIN wss :
        wss[w].nEmptyDir > 0 =>
            \A i \in DOMAIN wss[w].files :
                ~IsPrefix(Resolved(<<>>, wss[w].targetDir), wss[w].files[i])

\* C19: the directory deployWorkspace resolves for emptying (without the
\* './' default) is the root getFullDirPathFromTarget gives deployFile, for
\* every target.dir, and every file of the run is written under it.
C19_SameRoot ==
    \A w \in DOMAIN wss :
        ~wss[w].raised =>
            /\ wss[w].targetDir = getFullDirPathFromTarget(wss[w].target).path
            /\ \A c \in CallsOf(w) :
                  calls[c].nExists > 0 =>
                      IsPrefix(Resolved(<<>>, wss[w].targetDir), calls[c].targetFile)

\* target.dir unset: the workspace root was emptied and a file is written under it
C19_Witness ==
    \E w \in DOMAIN wss :
        /\ wss[w].target.dir = DirUnset
        /\ wss[w].emptied
        /\ wss[w].targetDir = WorkspaceRoot
        /\ \E c \in CallsOf(w) :
              calls[c].nCopy = 1 /\ IsPrefix(WorkspaceRoot, calls[c].targetFile)

\* C20: every invocation of opts.onCompleted by deployFile receives the file
\* and the target of that call, and reports exactly one of success (no error,
\* not canceled), error (an error, not canceled) and cancellation (canceled,
\* no error): never canceled together with an error.
C20_PayloadWellFormed ==
    \A c \in DOMAIN calls :
        /\ Len(calls[c].payloads) = calls[c].nCompleted
        /\ \A i \in DOMAIN calls[c].payloads :
              LET e == calls[c].payloads[i]
              IN /\ e.file = calls[c].file
                 /\ e.target = calls[c].target
                 /\ ~(e.canceled /\ e.error # "none")
                 /\ e.canceled = calls[c].cancelAtEntry
                 /\ e.error \in {"none", "mapping", "mkdirs", "hook", "copy"}

\* an error and a success, each delivered with the call's file and target:
\* a failed copy of a file written elsewhere, then a file copied
C20_Witness ==
    /\ \E c \in DOMAIN calls :
          /\ calls[c].payloads # <<>>
          /\ calls[c].payloads[1].error = "copy"
          /\ calls[c].payloads[1].file = FileSrc
          /\ calls[c].targetFile # calls[c].file
    /\ \E c \in DOMAIN calls :
          /\ calls[c].payloads # <<>>
          /\ ~calls[c].payloads[1].canceled
          /\ calls[c].payloads[1].error = "none"
          /\ calls[c].nCopy = 1

\* C17: a deployWorkspace called without options never raises, whether
\* cancellation is active, the emptying fails, the emptying succeeds or
\* nothing is emptied.
C17_OmittedOptsNeverRaise ==
    \A w \in DOMAIN wss : ~wss[w].hasOpts => ~wss[w].raised

\* C15: no step of the plugin (deployFile, deployWorkspace and their
\* callbacks, info) changes the identity fields __file, __filePath, __index
\* and __type the instance was given when it was registered.
C15_IdentityWriteOnce ==
    [][ /\ me'.__file = me.__file
        /\ me'.__filePath = me.__filePath
        /\ me'.__index = me.__index
        /\ me'.__type = me.__type ]_vars

\* the registered plugin has answered info() and has deployed a workspace
\* of two files to its end
C15_Witness ==
    /\ me \in RegisteredIdentities
    /\ me.__type = "local"
    /\ lastInfo # NoInfo
    /\ \E w \in DOMAIN wss :
          /\ wss[w].nCompleted = 1
          /\ wss[w].nFileCompleted = 2
          /\ \E c \in CallsOf(w) : calls[c].nCopy = 1

\* the function of the module for the requested direction
Requested(t) == IF t.mode = "Transform" THEN t.module.transformData ELSE t.module.restoreData

\* C14: when a transform module is configured and lacks the function of the
\* requested direction (transformData for Transform, restoreData for
\* Restore), the pipeline yields a TransformError and no buffer.
C14_MissingDirectionIsError ==
    (transformed.applied /\ transformed.module.configured /\ Requested(transformed) = "absent") =>
        /\ ~transformed.result.ok
        /\ transformed.result.error = "TransformError"
        /\ transformed.result.cause = "missing"

\* a module that can transform but not restore was asked to restore two bytes
C14_Witness ==
    /\ transformed.applied
    /\ transformed.module.configured
    /\ transformed.module.transformData = "shift"
    /\ transformed.module.restoreData = "absent"
    /\ transformed.mode = "Restore"
    /\ Len(transformed.buffer) = 2
    /\ transformed.result.error = "TransformError"

====
